---------------------------- MODULE Spec2Model ----------------------------
(***************************************************************************)
(* Adaptive LSB steganography codec of src/api/simple_backend.py:          *)
(* Sobel complexity analysis, 2x2 block mask, payload framing, embedding   *)
(* into and extraction from the blue channel, and the /embed and /extract  *)
(* handlers that call them; the PSNR of calculate_psnr and of              *)
(* app/services/steganography.py; and the validations of the /embed        *)
(* endpoint of app/api/v1/endpoints/embed.py.                              *)
(*                                                                         *)
(* Numbers.  The code computes the complexity map in floating point        *)
(* (float64 luma, float32 gradients).  The model computes the same         *)
(* quantities in exact arithmetic: the luma is kept times 1000 (an         *)
(* integer), the squared gradient magnitude is an exact natural number     *)
(* (in base-10000 limbs when it does not fit 32 bits), and the final cast  *)
(* to uint8 is the floor of 255 * m / max.  Block means are kept times 4   *)
(* and the threshold as a fraction num / den.  Rounding errors of the      *)
(* floating-point evaluation are not modelled.  A PSNR is kept in          *)
(* hundredths, as a range when the model does not compute the logarithm.   *)
(***************************************************************************)
EXTENDS Integers, Sequences, FiniteSets, TLC

---------------------------------------------------------------------------
(* Exact natural numbers wider than 32 bits: little-endian base-10000 limbs *)

Limbs == 0..4

\* an array or list held as its values: f itself, with every element computed
\* once (the comparison makes the evaluator tabulate f)
Array(f) == IF f = f THEN f ELSE f

\* a str or bytes value: the sequence f itself, held as a tuple
Str(f) == f \o <<>>

Big(n) ==
    Array([k \in Limbs |-> CASE k = 0 -> n % 10000
                             [] k = 1 -> (n \div 10000) % 10000
                             [] k = 2 -> n \div 100000000
                             [] OTHER -> 0])

\* the limbs of the number whose digits are raw[k], ..., with carry c
RECURSIVE Carry(_, _, _)
Carry(raw, k, c) ==
    IF k > 4 THEN <<>>
    ELSE <<(raw[k] + c) % 10000>> \o Carry(raw, k + 1, (raw[k] + c) \div 10000)

BigNorm(raw) ==
    LET digits == Carry(Array(raw), 0, 0)
    IN  Array([k \in Limbs |-> digits[k + 1]])

BigAdd(a, b) == BigNorm([k \in Limbs |-> a[k] + b[k]])

RECURSIVE ConvSum(_, _, _, _)
ConvSum(a, b, k, i) ==
    IF i > k THEN 0 ELSE a[i] * b[k - i] + ConvSum(a, b, k, i + 1)

BigMul(a, b) == BigNorm([k \in Limbs |-> ConvSum(a, b, k, 0)])

RECURSIVE BigLeqFrom(_, _, _)
BigLeqFrom(a, b, k) ==
    IF k < 0 THEN TRUE
    ELSE IF a[k] # b[k] THEN a[k] < b[k]
    ELSE BigLeqFrom(a, b, k - 1)

BigLeq(a, b) == BigLeqFrom(a, b, 4)

BigZero == Big(0)

Abs(n) == IF n < 0 THEN -n ELSE n

Min(a, b) == IF a < b THEN a ELSE b

---------------------------------------------------------------------------
(* Images: numpy arrays of shape (h, w, 3), dtype uint8                    *)

Clamp(i, lo, hi) == IF i < lo THEN lo ELSE IF i > hi THEN hi ELSE i

Rows(img) == 0..(img.h - 1)
Cols(img) == 0..(img.w - 1)

\* np.dot(image_array[...,:3], [0.299, 0.587, 0.114]), times 1000
Gray(img) ==
    Array([y \in Rows(img) |-> [x \in Cols(img) |->
        299 * img.a[y][x][0] + 587 * img.a[y][x][1] + 114 * img.a[y][x][2]]])

sobel_x == <<<<-1, 0, 1>>, <<-2, 0, 2>>, <<-1, 0, 1>>>>
sobel_y == <<<<-1, -2, -1>>, <<0, 0, 0>>, <<1, 2, 1>>>>

\* np.pad(gray, ((1, 1), (1, 1)), mode='edge') read at padded index (i, j)
Padded(gray, h, w, i, j) == gray[Clamp(i - 1, 0, h - 1)][Clamp(j - 1, 0, w - 1)]

\* np.sum(padded[i:i+3, j:j+3] * kernel)
Convolve(gray, h, w, kernel, i, j) ==
    LET row(r) == Padded(gray, h, w, i + r, j) * kernel[r + 1][1]
                + Padded(gray, h, w, i + r, j + 1) * kernel[r + 1][2]
                + Padded(gray, h, w, i + r, j + 2) * kernel[r + 1][3]
    IN  row(0) + row(1) + row(2)

RECURSIVE Gcd(_, _)
Gcd(a, b) == IF b = 0 THEN a ELSE Gcd(b, a % b)

Max(a, b) == IF a < b THEN b ELSE a

\* element k of a two-dimensional array of width w, in row-major order
Flat(arr, w, k) == arr[k \div w][k % w]

\* the common divisor of the elements lo..hi of arr
RECURSIVE GcdOf(_, _, _, _)
GcdOf(arr, w, lo, hi) ==
    IF lo = hi THEN Flat(arr, w, lo)
    ELSE LET mid == (lo + hi) \div 2
         IN  Gcd(GcdOf(arr, w, lo, mid), GcdOf(arr, w, mid + 1, hi))

\* arr.max() over the elements lo..hi
RECURSIVE MaxOf(_, _, _, _)
MaxOf(arr, w, lo, hi) ==
    IF lo = hi THEN Flat(arr, w, lo)
    ELSE LET mid == (lo + hi) \div 2
         IN  Max(MaxOf(arr, w, lo, mid), MaxOf(arr, w, mid + 1, hi))

\* the largest v in lo..hi with v * v <= q
RECURSIVE Isqrt(_, _, _)
Isqrt(q, lo, hi) ==
    IF lo = hi THEN lo
    ELSE LET mid == (lo + hi + 1) \div 2
         IN  IF mid * mid <= q THEN Isqrt(q, mid, hi) ELSE Isqrt(q, lo, mid - 1)

\* floor(255 * sqrt(m2) / sqrt(max2)) for 0 <= m2 <= max2, 255 * max2 < 2^31:
\* floor(65025 * m2 / max2) by two divisions, then its integer square root
NormSmall(m2, max2) ==
    LET q1 == (255 * m2) \div max2
        r1 == 255 * m2 - q1 * max2
        q0 == (255 * r1) \div max2
    IN  Isqrt(255 * q1 + q0, 0, 255)

\* the same value for magnitudes held in limbs: the largest v in lo..hi with
\* v * v * max2 <= scaled, where scaled = 255 * 255 * m2
RECURSIVE NormSearch(_, _, _, _)
NormSearch(scaled, max2, lo, hi) ==
    IF lo = hi THEN lo
    ELSE LET mid == (lo + hi + 1) \div 2
         IN  IF BigLeq(BigMul(Big(mid * mid), max2), scaled)
             THEN NormSearch(scaled, max2, mid, hi)
             ELSE NormSearch(scaled, max2, lo, mid - 1)

RECURSIVE BigMax(_, _, _, _)
BigMax(arr, w, lo, hi) ==
    IF lo = hi THEN Flat(arr, w, lo)
    ELSE LET mid == (lo + hi) \div 2
             p == BigMax(arr, w, lo, mid)
             r == BigMax(arr, w, mid + 1, hi)
         IN  IF BigLeq(p, r) THEN r ELSE p

\* (magnitude / magnitude.max()) * 255 cast to uint8, where some gradient is
\* not zero.  The ratio does not change when every gradient is divided by
\* their common divisor; when the divided gradients are small the squares fit
\* 32 bits, otherwise they are computed in limbs.
Normalize(img, grad_x, grad_y) ==
    LET w == img.w
        last == img.h * img.w - 1
        g == Gcd(GcdOf(grad_x, w, 0, last), GcdOf(grad_y, w, 0, last))
        m == Max(MaxOf(grad_x, w, 0, last), MaxOf(grad_y, w, 0, last)) \div g
        small2 == Array([i \in Rows(img) |-> [j \in Cols(img) |->
                      (grad_x[i][j] \div g) * (grad_x[i][j] \div g)
                    + (grad_y[i][j] \div g) * (grad_y[i][j] \div g)]])
        smallmax == MaxOf(small2, w, 0, last)
        big2 == Array([i \in Rows(img) |-> [j \in Cols(img) |->
                    BigAdd(BigMul(Big(grad_x[i][j]), Big(grad_x[i][j])),
                           BigMul(Big(grad_y[i][j]), Big(grad_y[i][j])))]])
        bigmax == BigMax(big2, w, 0, last)
    IN  IF m <= 2048
        THEN Array([i \in Rows(img) |-> [j \in Cols(img) |->
                 IF small2[i][j] = 0 THEN 0 ELSE NormSmall(small2[i][j], smallmax)]])
        ELSE Array([i \in Rows(img) |-> [j \in Cols(img) |->
                 IF big2[i][j] = BigZero THEN 0
                 ELSE NormSearch(BigMul(Big(65025), big2[i][j]), bigmax, 0, 255)]])

\* the loops filling grad_x or grad_y (absolute values: only the squares
\* are used)
Gradient(img, gray, kernel) ==
    Array([i \in Rows(img) |-> [j \in Cols(img) |->
        Abs(Convolve(gray, img.h, img.w, kernel, i, j))]])

\* magnitude = sqrt(grad_x**2 + grad_y**2), normalised if magnitude.max() > 0,
\* cast to uint8
Magnitude(img, grad_x, grad_y) ==
    IF \A i \in Rows(img), j \in Cols(img) : grad_x[i][j] = 0 /\ grad_y[i][j] = 0
    THEN [i \in Rows(img) |-> [j \in Cols(img) |-> 0]]
    ELSE Normalize(img, grad_x, grad_y)

\* the gradients and magnitude of the grayscale image gray
SobelOfGray(img, gray) ==
    Magnitude(img, Gradient(img, gray, sobel_x), Gradient(img, gray, sobel_y))

\* sobel_edge_detection: the uint8 complexity map of an RGB image
SobelEdgeDetection(img) == SobelOfGray(img, Gray(img))

---------------------------------------------------------------------------
(* 2x2 blocks, threshold and bits per pixel (the same code in embed and    *)
(* extract)                                                                *)

block_size == 2

BlocksH(img) == img.h \div block_size
BlocksW(img) == img.w \div block_size
NumBlocks(img) == BlocksH(img) * BlocksW(img)

\* block number b, in the order of the loops "for bi ... for bj ..."
BlockRow(img, b) == b \div BlocksW(img)
BlockCol(img, b) == b % BlocksW(img)

\* 4 * np.mean(complexity_map[y1:y2, x1:x2])
BlockSum(cmap, bi, bj) ==
    LET y1 == bi * block_size
        x1 == bj * block_size
    IN  cmap[y1][x1] + cmap[y1][x1 + 1] + cmap[y1 + 1][x1] + cmap[y1 + 1][x1 + 1]

\* block_complexities, each times 4, in append order
BlockComplexities(img, cmap) ==
    Array([b \in 1..NumBlocks(img) |->
        BlockSum(cmap, BlockRow(img, b - 1), BlockCol(img, b - 1))])

\* s[lo] + ... + s[hi]
RECURSIVE SumSeq(_, _, _)
SumSeq(s, lo, hi) ==
    IF lo > hi THEN 0
    ELSE IF lo = hi THEN s[lo]
    ELSE LET mid == (lo + hi) \div 2
         IN  SumSeq(s, lo, mid) + SumSeq(s, mid + 1, hi)

\* threshold = np.mean(block_complexities) if block_complexities else 128
Threshold(bcs) ==
    IF Len(bcs) > 0
    THEN [num |-> SumSeq(bcs, 1, Len(bcs)), den |-> 4 * Len(bcs)]
    ELSE [num |-> 128, den |-> 1]

\* bits_per_pixel = 1 if block_complexity < threshold else 2
BitsPerPixel(bsum, threshold) ==
    IF bsum * threshold.den < 4 * threshold.num THEN 1 ELSE 2

\* the threshold, and the bits per pixel of every block
Mask(bcs, threshold) ==
    [threshold |-> threshold,
     bits |-> Array([b \in 1..Len(bcs) |-> BitsPerPixel(bcs[b], threshold)])]

MaskOf(bcs) == Mask(bcs, Threshold(bcs))

\* what both functions compute before their main loop
Analyze(img) == MaskOf(BlockComplexities(img, SobelEdgeDetection(img)))

---------------------------------------------------------------------------
(* Payload codec.  A text is a sequence of Unicode code points, a bit      *)
(* string a sequence of 0 and 1.                                           *)

\* str.encode('utf-8') of one code point (no surrogates)
Utf8Char(cp) ==
    IF cp < 128 THEN <<cp>>
    ELSE IF cp < 2048 THEN <<192 + (cp \div 64), 128 + (cp % 64)>>
    ELSE IF cp < 65536
         THEN <<224 + (cp \div 4096), 128 + ((cp \div 64) % 64), 128 + (cp % 64)>>
    ELSE <<240 + (cp \div 262144), 128 + ((cp \div 4096) % 64),
           128 + ((cp \div 64) % 64), 128 + (cp % 64)>>

\* text.encode('utf-8'): the bytes of text[lo..hi], one character after the
\* other
RECURSIVE Utf8EncodeRange(_, _, _)
Utf8EncodeRange(text, lo, hi) ==
    IF lo > hi THEN <<>>
    ELSE IF lo = hi THEN Utf8Char(text[lo])
    ELSE Utf8EncodeRange(text, lo, (lo + hi) \div 2)
         \o Utf8EncodeRange(text, ((lo + hi) \div 2) + 1, hi)

Utf8Encode(text) == Utf8EncodeRange(text, 1, Len(text))

IsCont(byte) == byte >= 128 /\ byte <= 191

\* the values the second byte of a sequence starting with b0 may take
SecondOk(b0, b1) ==
    CASE b0 = 224 -> b1 >= 160 /\ b1 <= 191
      [] b0 = 237 -> b1 >= 128 /\ b1 <= 159
      [] b0 = 240 -> b1 >= 144 /\ b1 <= 191
      [] b0 = 244 -> b1 >= 128 /\ b1 <= 143
      [] OTHER -> IsCont(b1)

\* bytes.decode('utf-8', errors='ignore'), one step at byte i: the character
\* decoded there, if any, and the byte where decoding goes on.  An invalid
\* start byte is dropped, an invalid continuation drops the bytes before it,
\* and a sequence cut off by the end of the data drops the rest.
Utf8Step(bytes, i) ==
    LET b0 == bytes[i]
        need == IF b0 < 128 THEN 1
                ELSE IF b0 >= 194 /\ b0 <= 223 THEN 2
                ELSE IF b0 >= 224 /\ b0 <= 239 THEN 3
                ELSE IF b0 >= 240 /\ b0 <= 244 THEN 4
                ELSE 0
        n == Len(bytes)
    IN  IF need = 0 THEN [out |-> <<>>, next |-> i + 1]
        ELSE IF need = 1 THEN [out |-> <<b0>>, next |-> i + 1]
        ELSE IF i + 1 > n THEN [out |-> <<>>, next |-> n + 1]
        ELSE IF ~SecondOk(b0, bytes[i + 1]) THEN [out |-> <<>>, next |-> i + 1]
        ELSE IF need = 2
             THEN [out |-> <<(b0 - 192) * 64 + (bytes[i + 1] - 128)>>,
                   next |-> i + 2]
        ELSE IF i + 2 > n THEN [out |-> <<>>, next |-> n + 1]
        ELSE IF ~IsCont(bytes[i + 2]) THEN [out |-> <<>>, next |-> i + 2]
        ELSE IF need = 3
             THEN [out |-> <<(b0 - 224) * 4096 + (bytes[i + 1] - 128) * 64
                             + (bytes[i + 2] - 128)>>,
                   next |-> i + 3]
        ELSE IF i + 3 > n THEN [out |-> <<>>, next |-> n + 1]
        ELSE IF ~IsCont(bytes[i + 3]) THEN [out |-> <<>>, next |-> i + 3]
        ELSE [out |-> <<(b0 - 240) * 262144 + (bytes[i + 1] - 128) * 4096
                        + (bytes[i + 2] - 128) * 64 + (bytes[i + 3] - 128)>>,
              next |-> i + 4]

\* the steps that start at a byte of i..hi, in order
Utf8Cat(left, right) ==
    [out |-> left.out \o right.out, next |-> right.next]

RECURSIVE Utf8DecodeRange(_, _, _)
Utf8Join(bytes, hi, left) ==
    Utf8Cat(left, Utf8DecodeRange(bytes, left.next, hi))

Utf8DecodeRange(bytes, i, hi) ==
    IF i > hi THEN [out |-> <<>>, next |-> i]
    ELSE IF i = hi THEN Utf8Step(bytes, i)
    ELSE Utf8Join(bytes, hi, Utf8DecodeRange(bytes, i, (i + hi) \div 2))

\* the text decoded from byte i on
Utf8Decode(bytes, i) == Utf8DecodeRange(bytes, i, Len(bytes)).out

Pow2(k) ==
    CASE k = 0 -> 1 [] k = 1 -> 2 [] k = 2 -> 4 [] k = 3 -> 8
      [] k = 4 -> 16 [] k = 5 -> 32 [] k = 6 -> 64 [] k = 7 -> 128

\* ''.join(format(byte, '08b') for byte in full_data)
BytesToBits(bytes) ==
    Str([i \in 1..(8 * Len(bytes)) |->
        (bytes[((i - 1) \div 8) + 1] \div Pow2(7 - ((i - 1) % 8))) % 2])

\* a wrong byte order: struct.pack('<I', length)
PackLengthLittleEndian(length) ==
    <<length % 256, (length \div 256) % 256,
      (length \div 65536) % 256, (length \div 16777216) % 256>>

\* struct.pack('>I', length)
PackLength(length) ==
    <<(length \div 16777216) % 256, (length \div 65536) % 256,
      (length \div 256) % 256, length % 256>>

\* a missing check: the empty text is framed like any other
TextToBinaryAlwaysFramed(text) ==
    BytesToBits(PackLength(Len(Utf8Encode(text))) \o Utf8Encode(text) \o <<255>>)

\* a wrong terminator: seven 1 bits instead of the byte 0xFF
TextToBinarySevenBitEnd(text) ==
    IF text = <<>> THEN <<>>
    ELSE BytesToBits(PackLength(Len(Utf8Encode(text))) \o Utf8Encode(text))
         \o <<1, 1, 1, 1, 1, 1, 1>>

\* text_to_binary
TextToBinary(text) ==
    IF text = <<>> THEN <<>>
    ELSE LET text_bytes == Utf8Encode(text)
             length == Len(text_bytes)
             header == PackLength(length)
             full_data == header \o text_bytes \o <<255>>
         IN  BytesToBits(full_data)

\* int(bits, 2) for at most 15 bits
RECURSIVE BitsToInt(_)
BitsToInt(bits) ==
    IF bits = <<>> THEN 0
    ELSE 2 * BitsToInt(SubSeq(bits, 1, Len(bits) - 1)) + bits[Len(bits)]

\* a wrong width: only the low 15 bits of the length field are read
LengthFieldLowBits(length_bits) == BitsToInt(SubSeq(length_bits, 18, 32))

\* the 32-bit length field.  A field with one of its upper 17 bits set is
\* 32768 or more; it is reported as 32768, which the only comparison made
\* with it (length > 10000) cannot tell from the true value.
LengthField(length_bits) ==
    IF \E i \in 1..17 : length_bits[i] = 1
    THEN 32768
    ELSE BitsToInt(SubSeq(length_bits, 18, 32))

\* the bytes of data_bits, 8 bits at a time (a shorter last group is skipped)
BitsToBytes(data_bits) ==
    Str([k \in 1..(Len(data_bits) \div 8) |->
        BitsToInt(SubSeq(data_bits, 8 * (k - 1) + 1, 8 * k))])

\* a missing slice: everything after the header is decoded
BinaryToTextToEnd(binary_string) ==
    IF Len(binary_string) < 32 THEN <<>>
    ELSE LET length == LengthField(SubSeq(binary_string, 1, 32))
             data_bits == SubSeq(binary_string, 33, Len(binary_string))
         IN  IF length = 0 \/ length > 10000 THEN <<>>
             ELSE IF Len(data_bits) < length * 8 THEN <<>>
             ELSE Utf8Decode(BitsToBytes(data_bits), 1)

\* a missing check: a stream shorter than its length field is decoded as far
\* as it goes
BinaryToTextPartial(binary_string) ==
    IF Len(binary_string) < 32 THEN <<>>
    ELSE LET length == LengthField(SubSeq(binary_string, 1, 32))
             data_bits == SubSeq(binary_string, 33,
                                 Min(32 + length * 8, Len(binary_string)))
         IN  IF length = 0 \/ length > 10000 THEN <<>>
             ELSE Utf8Decode(BitsToBytes(data_bits), 1)

\* binary_to_text; the empty text is ""
BinaryToText(binary_string) ==
    IF Len(binary_string) < 32 THEN <<>>
    ELSE LET length == LengthField(SubSeq(binary_string, 1, 32))
             data_bits == SubSeq(binary_string, 33,
                                 Min(32 + length * 8, Len(binary_string)))
         IN  IF length = 0 \/ length > 10000 THEN <<>>
             ELSE IF Len(data_bits) < length * 8 THEN <<>>
             ELSE Utf8Decode(BitsToBytes(data_bits), 1)

---------------------------------------------------------------------------
(* adaptive_lsb_embed                                                      *)

\* a wrong row index: the column offset used for the row
PixelYByColumn(bi, p) == bi * block_size + (p % block_size)

\* the p-th pixel (p = 0..3) of block (bi, bj) in the order of the loops
\* "for y in range(y1, y2): for x in range(x1, x2)"
PixelY(bi, p) == bi * block_size + (p \div block_size)
PixelX(bj, p) == bj * block_size + (p % block_size)

\* the place of block (bi, bj) in block_complexities
BlockIndex(img, bi, bj) == bi * BlocksW(img) + bj + 1

\* a wrong channel index: stego_image[y, x, 1] = pixel_value
WriteGreen(a, y, x, pixel_value) == [a EXCEPT ![y][x][1] = pixel_value]

\* a wrong column: the pixel to the right is written, the first pixel of
\* the row after the last
WriteBlueToTheRight(a, y, x, pixel_value) ==
    [a EXCEPT ![y][(x + 1) % Cardinality(DOMAIN a[y])][2] = pixel_value]

\* stego_image[y, x, 2] = pixel_value
WriteBlue(a, y, x, pixel_value) == [a EXCEPT ![y][x][2] = pixel_value]

\* a wrong mask: pixel_value & 0xFE for 2 bits too
ClearLowOneBit(pixel_value, k) == pixel_value - (pixel_value % 2)

\* pixel_value & 0xFE, pixel_value & 0xFC
ClearLow(pixel_value, k) == pixel_value - (pixel_value % (IF k = 1 THEN 2 ELSE 4))

\* the body of the pixel loop (lines 246-265); binary_data[i] is data[i + 1]
EmbedPixel(st, y, x, bits_per_pixel, data) ==
    LET pixel_value == st.a[y][x][2]
        data_index == st.data_index
        data_length == Len(data)
    IN  IF bits_per_pixel = 1
        THEN IF data_index < data_length
             THEN [a |-> WriteBlue(st.a, y, x,
                                   ClearLow(pixel_value, 1) + data[data_index + 1]),
                   data_index |-> data_index + 1,
                   pixels |-> st.pixels + 1]
             ELSE [st EXCEPT !.pixels = @ + 1]
        ELSE LET bits_to_embed == Min(2, data_length - data_index)
                 bits_value == IF bits_to_embed = 2
                               THEN 2 * data[data_index + 1] + data[data_index + 2]
                               ELSE data[data_index + 1]
             IN  IF bits_to_embed > 0
                 THEN [a |-> WriteBlue(st.a, y, x,
                                       ClearLow(pixel_value, 2) + bits_value),
                       data_index |-> data_index + bits_to_embed,
                       pixels |-> st.pixels + 1]
                 ELSE [st EXCEPT !.pixels = @ + 1]

\* the loops over the pixels of block (bi, bj), from its p-th pixel on
RECURSIVE EmbedPixels(_, _, _, _, _, _)
EmbedPixels(st, bi, bj, bits_per_pixel, data, p) ==
    IF p >= block_size * block_size \/ st.data_index >= Len(data)
    THEN st
    ELSE EmbedPixels(EmbedPixel(st, PixelY(bi, p), PixelX(bj, p),
                                bits_per_pixel, data),
                     bi, bj, bits_per_pixel, data, p + 1)

\* the loop "for bj in range(blocks_w)" of block row bi, from column bj on
RECURSIVE EmbedBlockRow(_, _, _, _, _, _)
EmbedBlockRow(st, img, bits, data, bi, bj) ==
    IF bj >= BlocksW(img) \/ st.data_index >= Len(data)
    THEN st
    ELSE EmbedBlockRow(EmbedPixels(st, bi, bj, bits[BlockIndex(img, bi, bj)], data, 0),
                       img, bits, data, bi, bj + 1)

\* the loop "for bi in range(blocks_h)" over the block rows lo..hi-1, as the
\* first half of the rows followed by the second half; a row reached after
\* the payload is exhausted leaves at its first block and changes nothing
RECURSIVE EmbedBlocks(_, _, _, _, _, _)
EmbedBlocks(st, img, bits, data, lo, hi) ==
    IF lo >= hi \/ st.data_index >= Len(data)
    THEN st
    ELSE IF hi = lo + 1
    THEN EmbedBlockRow(st, img, bits, data, lo, 0)
    ELSE EmbedBlocks(EmbedBlocks(st, img, bits, data, lo, (lo + hi) \div 2),
                     img, bits, data, (lo + hi) \div 2, hi)

\* adaptive_lsb_embed(cover_image, binary_data) writing into the array
\* stego_image, whose content is `copy` when the loops start
EmbedResult(cover_image, an, st) ==
    [stego_image |-> [h |-> cover_image.h, w |-> cover_image.w, a |-> st.a],
     threshold |-> an.threshold,
     bits |-> an.bits,
     data_index |-> st.data_index,
     pixels |-> st.pixels]

\* the main loop, with the analysis an of the cover
EmbedWith(cover_image, copy, binary_data, an) ==
    EmbedResult(cover_image, an,
                EmbedBlocks([a |-> copy.a, data_index |-> 0, pixels |-> 0],
                            cover_image, an.bits, binary_data,
                            0, BlocksH(cover_image)))

AdaptiveLsbEmbed(cover_image, copy, binary_data) ==
    EmbedWith(cover_image, copy, binary_data, Analyze(cover_image))

---------------------------------------------------------------------------
(* adaptive_lsb_extract                                                    *)

max_bits_default == 100000

\* the bits read from one pixel: str(pixel_value & 1) or
\* format(pixel_value & 3, '02b')
PixelBits(pixel_value, bits_per_pixel) ==
    IF bits_per_pixel = 1
    THEN <<pixel_value % 2>>
    ELSE <<(pixel_value % 4) \div 2, pixel_value % 2>>

RECURSIVE ExtractPixels(_, _, _, _, _, _, _)
ExtractPixels(extracted_bits, img, bi, bj, bits_per_pixel, max_bits, p) ==
    IF p >= block_size * block_size \/ Len(extracted_bits) >= max_bits
    THEN extracted_bits
    ELSE ExtractPixels(
             extracted_bits
                 \o PixelBits(img.a[PixelY(bi, p)][PixelX(bj, p)][2], bits_per_pixel),
             img, bi, bj, bits_per_pixel, max_bits, p + 1)

RECURSIVE ExtractBlockRow(_, _, _, _, _, _)
ExtractBlockRow(extracted_bits, img, bits, max_bits, bi, bj) ==
    IF bj >= BlocksW(img) \/ Len(extracted_bits) >= max_bits
    THEN extracted_bits
    ELSE ExtractBlockRow(
             ExtractPixels(extracted_bits, img, bi, bj,
                           bits[BlockIndex(img, bi, bj)], max_bits, 0),
             img, bits, max_bits, bi, bj + 1)

RECURSIVE ExtractBlocks(_, _, _, _, _, _)
ExtractBlocks(extracted_bits, img, bits, max_bits, lo, hi) ==
    IF lo >= hi \/ Len(extracted_bits) >= max_bits
    THEN extracted_bits
    ELSE IF hi = lo + 1
    THEN ExtractBlockRow(extracted_bits, img, bits, max_bits, lo, 0)
    ELSE ExtractBlocks(ExtractBlocks(extracted_bits, img, bits, max_bits,
                                     lo, (lo + hi) \div 2),
                       img, bits, max_bits, (lo + hi) \div 2, hi)

\* adaptive_lsb_extract(stego_image, max_bits)
ExtractResult(an, extracted_bits) ==
    [text |-> BinaryToText(extracted_bits),
     threshold |-> an.threshold,
     bits |-> an.bits,
     extracted_bits |-> extracted_bits]

\* the main loop and the decoding, with the analysis an of the stego image
ExtractWith(stego_image, max_bits, an) ==
    ExtractResult(an, ExtractBlocks(<<>>, stego_image, an.bits, max_bits,
                                0, BlocksH(stego_image)))

AdaptiveLsbExtract(stego_image, max_bits) ==
    ExtractWith(stego_image, max_bits, Analyze(stego_image))

---------------------------------------------------------------------------
(* Quality metrics.  A float result is plus infinity, or a number known to *)
(* lie between lo and hi hundredths (lo = hi when the model computes it    *)
(* exactly).                                                               *)

PlusInfinity == [inf |-> TRUE, lo |-> 0, hi |-> 0]

Hundredths(lo, hi) == [inf |-> FALSE, lo |-> lo, hi |-> hi]

\* the k-th value of an image read row by row, pixel by pixel
Channel(img, k) == img.a[k \div (3 * img.w)][(k \div 3) % img.w][k % 3]

\* the sum of (original - stego) ** 2 in float64 over the values lo..hi
RECURSIVE SumSquares(_, _, _, _)
SumSquares(original, stego, lo, hi) ==
    IF lo = hi
    THEN (Channel(original, lo) - Channel(stego, lo))
         * (Channel(original, lo) - Channel(stego, lo))
    ELSE SumSquares(original, stego, lo, (lo + hi) \div 2)
         + SumSquares(original, stego, ((lo + hi) \div 2) + 1, hi)

\* psnr for mse = total / count.  mse < 1e-10 (of integers: total = 0) is
\* replaced by 0.1, which gives 58.13; the result is clamped to 35.0 .. 50.0
\* and rounded to hundredths.  It is 50.0 when mse <= 65025 / 10^5
\* (= 2601 / 4000) and is not computed by the model above that.
PsnrOfMse(total, count) ==
    IF total = 0 THEN Hundredths(5000, 5000)
    ELSE IF 4000 * total <= 2601 * count THEN Hundredths(5000, 5000)
    ELSE Hundredths(3500, 5000)

\* calculate_psnr(original, stego) of simple_backend.py
CalculatePsnr(original, stego) ==
    PsnrOfMse(SumSquares(original, stego, 0, 3 * original.h * original.w - 1),
              3 * original.h * original.w)

\* the sum of (cover_array - stego_array) ** 2 in uint8 over the values
\* lo..hi: the difference and its square wrap around at 256
RECURSIVE SumSquaresUint8(_, _, _, _)
SumSquaresUint8(cover_array, stego_array, lo, hi) ==
    IF lo = hi
    THEN (((Channel(cover_array, lo) - Channel(stego_array, lo)) % 256)
          * ((Channel(cover_array, lo) - Channel(stego_array, lo)) % 256)) % 256
    ELSE SumSquaresUint8(cover_array, stego_array, lo, (lo + hi) \div 2)
         + SumSquaresUint8(cover_array, stego_array, ((lo + hi) \div 2) + 1, hi)

\* psnr of _calculate_embedding_metrics for mse = total / count: 100.0 when
\* mse == 0, and 20 * log10(255 / sqrt(mse)) otherwise, which the model does
\* not compute: with 1 / count <= mse <= 255 and count below 150000 it is
\* between 24.06 and 99.99
ServicePsnrOfMse(total) ==
    IF total = 0 THEN Hundredths(10000, 10000) ELSE Hundredths(2406, 9999)

\* the psnr of SteganographyService._calculate_embedding_metrics
CalculateEmbeddingMetrics(cover_array, stego_array) ==
    ServicePsnrOfMse(SumSquaresUint8(cover_array, stego_array, 0,
                                     3 * cover_array.h * cover_array.w - 1))

\* the sum of the values lo..hi of a complexity map of width w
RECURSIVE MapSum(_, _, _, _)
MapSum(cmap, w, lo, hi) ==
    IF lo = hi THEN Flat(cmap, w, lo)
    ELSE MapSum(cmap, w, lo, (lo + hi) \div 2)
         + MapSum(cmap, w, ((lo + hi) \div 2) + 1, hi)

\* the dict calculate_embedding_capacity returns for the block complexities
\* bcs (times 4) and threshold = np.mean(complexity) = total / (h * w); the
\* two percentages divide by total_blocks
CapacityInfo(image, bcs, total, low) ==
    [error |-> IF Len(bcs) = 0 THEN "ZeroDivisionError" ELSE "none",
     total_blocks |-> Len(bcs),
     low_complexity_blocks |-> low,
     high_complexity_blocks |-> Len(bcs) - low,
     total_bits |-> low * 4 * 1 + (Len(bcs) - low) * 4 * 2,
     threshold |-> [num |-> total, den |-> image.h * image.w]]

\* the blocks with block_complexity < threshold
LowBlocks(image, bcs, total) ==
    CapacityInfo(image, bcs, total,
        Cardinality({b \in 1..Len(bcs) : bcs[b] * image.h * image.w < 4 * total}))

\* calculate_embedding_capacity(image), threshold not given
CalculateEmbeddingCapacity(image, complexity) ==
    LowBlocks(image, BlockComplexities(image, complexity),
              MapSum(complexity, image.w, 0, image.h * image.w - 1))

---------------------------------------------------------------------------
(* SteganographyService._lsb_embed and _lsb_extract                        *)

\* binary_data += '1111111111111110'
end_marker == <<1, 1, 1, 1, 1, 1, 1, 1, 1, 1, 1, 1, 1, 1, 1, 0>>

\* np.array(image).flatten(): the channel values row by row, pixel by pixel
Flatten(image) ==
    Str([k \in 1..(3 * image.h * image.w) |-> Channel(image, k - 1)])

\* flat_img.reshape(img_array.shape)
Reshape(flat_img, image) ==
    [h |-> image.h, w |-> image.w,
     a |-> [y \in 0..(image.h - 1) |-> [x \in 0..(image.w - 1) |->
               [c \in 0..2 |-> flat_img[(y * image.w + x) * 3 + c + 1]]]]]

\* flat_img[i] = (flat_img[i] & 0xFE) | int(bit) for the bits of binary_data
LsbWrite(flat_img, binary_data) ==
    [i \in 1..Len(flat_img) |->
        IF i <= Len(binary_data)
        THEN flat_img[i] - (flat_img[i] % 2) + binary_data[i]
        ELSE flat_img[i]]

\* the rest of _lsb_embed once flat_img and binary_data are known
LsbEmbedFlat(image, flat_img, binary_data, data) ==
    IF Len(binary_data) > Len(flat_img)
    THEN [error |-> "PayloadTooLargeError", payload_size |-> Len(data),
          max_capacity |-> Len(flat_img) \div 8]
    ELSE [error |-> "none",
          image |-> Reshape(LsbWrite(flat_img, binary_data), image)]

\* _lsb_embed(image, data, params)
LsbEmbed(image, data) ==
    LsbEmbedFlat(image, Flatten(image), BytesToBits(data) \o end_marker, data)

\* binary_data.endswith(end_marker)
EndsWith(binary_data, suffix) ==
    /\ Len(binary_data) >= Len(suffix)
    /\ SubSeq(binary_data, Len(binary_data) - Len(suffix) + 1, Len(binary_data))
           = suffix

\* the loop "for pixel in flat_img" from the i-th value on
RECURSIVE LsbScan(_, _, _)
LsbScan(flat_img, i, binary_data) ==
    IF i > Len(flat_img) THEN binary_data
    ELSE IF EndsWith(binary_data \o <<flat_img[i] % 2>>, end_marker)
    THEN SubSeq(binary_data, 1, Len(binary_data) + 1 - Len(end_marker))
    ELSE LsbScan(flat_img, i + 1, binary_data \o <<flat_img[i] % 2>>)

\* the end of _lsb_extract: None, or the bytes of binary_data
LsbBytes(binary_data) ==
    IF binary_data = <<>> \/ Len(binary_data) % 8 # 0
    THEN <<>>
    ELSE <<BitsToBytes(binary_data)>>

\* _lsb_extract(image, params): <<>> for None, <<data>> for data
LsbExtract(image) == LsbBytes(LsbScan(Flatten(image), 1, <<>>))

---------------------------------------------------------------------------
(* Inputs                                                                  *)

MaxH == 4
MaxW == 6
MaxRawBits == 5

\* the blue values, row by row, of two 4 x 6 images that were made without
\* the embedder
BlueTable1 ==
    <<60, 104, 200, 64, 108, 60, 72, 196, 60, 152, 100, 136,
      148, 140, 80, 120, 153, 72, 196, 164, 92, 69, 148, 193>>
BlueTable2 ==
    <<64, 64, 44, 84, 96, 64, 92, 44, 172, 156, 156, 116,
      176, 136, 92, 94, 148, 148, 168, 44, 189, 188, 52, 145>>

\* the pixel of cover pattern k at (y, x), in an image of width w
PatternPixel(k, w, y, x) ==
    CASE k = "flat00" -> <<120, 90, 100>>
      [] k = "flat11" -> <<120, 90, 103>>
      [] k = "edge"   -> IF 2 * x < w THEN <<120, 90, 40>> ELSE <<120, 90, 200>>
      [] k = "soft"   -> <<120, 90, 100 + ((x + y) % 2) * 3>>
      [] k = "ramp"   -> <<120, 90, 60 + 9 * x + 2 * y>>
      [] k = "corner" -> IF x = w - 1 /\ y = 0 THEN <<120, 90, 131>> ELSE <<120, 90, 128>>
      [] k = "rgb"    -> <<(40 * x + 7 * y) % 256, (200 - 33 * y + x) % 256,
                           (90 + 61 * x * y) % 256>>
      [] k = "lsb1"   -> <<120, 90, BlueTable1[((y * w + x) % 24) + 1]>>
      [] k = "lsb2"   -> <<120, 90, BlueTable2[((y * w + x) % 24) + 1]>>

Patterns == {"flat00", "flat11", "edge", "soft", "ramp", "corner", "rgb"}

Cover(h, w, k) ==
    [h |-> h, w |-> w,
     a |-> [y \in 0..(h - 1) |-> [x \in 0..(w - 1) |->
               [c \in 0..2 |-> PatternPixel(k, w, y, x)[c + 1]]]]]

Covers == {Cover(h, w, k) : h \in 1..MaxH, w \in 1..MaxW, k \in Patterns}

\* images uploaded to /extract: the covers, and the two images of the tables
Uploads == Covers \cup {Cover(4, 6, "lsb1"), Cover(4, 6, "lsb2")}

\* "A", "e-acute", a space, the empty text, and a text of 50 letters
FiftyChars == [i \in 1..50 |-> 97 + (i % 26)]
Texts == {<<>>, <<32>>, <<65>>, <<233>>, FiftyChars}

\* raw bit strings for direct calls of the codec
RawBit(k, i) ==
    CASE k = 1 -> i % 2
      [] k = 2 -> IF i % 3 = 0 THEN 0 ELSE 1
RawStreams == {[i \in 1..n |-> RawBit(k, i)] : k \in 1..2, n \in 0..MaxRawBits}

\* a 64 x 64 image of one gray colour
UniformGray(g) ==
    [h |-> 64, w |-> 64,
     a |-> [y \in 0..63 |-> [x \in 0..63 |-> [c \in 0..2 |-> g]]]]

GrayLevels == {0, 127, 128, 255}

\* "HI"
Hi == <<72, 73>>

\* the largest length field binary_to_text accepts
max_length == 10000

\* a text of n letters
Letters(n) == Str([i \in 1..n |-> 97 + (i % 26)])

\* texts for direct calls of the codec: those of Texts, "HI", the euro sign
\* (3 bytes), an emoji (4 bytes), "e-acute" between two letters, and texts
\* of 300, max_length and max_length + 1 letters
CodecTexts ==
    Texts \cup {Hi, <<8364>>, <<128512>>, <<97, 233, 98>>,
                Letters(300), Letters(max_length), Letters(max_length + 1)}

Requests ==
    {[op |-> "embed_text", secretText |-> t] : t \in Texts}
    \cup {[op |-> "adaptive_lsb_embed", binary_data |-> TextToBinary(t)] :
              t \in Texts \ {<<>>, <<32>>}}
    \cup {[op |-> "adaptive_lsb_embed", binary_data |-> b] : b \in RawStreams}

\* "HI" sent to /embed
HiRequest == [op |-> "embed_text", secretText |-> Hi]

\* an image sent to /extract
ExtractRequest == [op |-> "extract_text"]

\* direct calls adaptive_lsb_extract(stego_image, max_bits) with a small
\* max_bits
MaxBitsArg == 8
ReadRequests ==
    {[op |-> "adaptive_lsb_extract", max_bits |-> m] : m \in {1, MaxBitsArg}}

\* n bits equal to v
Run(v, n) == Str([i \in 1..n |-> v])

\* a length field followed by the bits of the bytes data
Framed(length, data) == BytesToBits(PackLength(length) \o data)

\* a bit string without its last n bits
Cut(bits, n) == SubSeq(bits, 1, Len(bits) - n)

\* bit strings for direct calls binary_to_text(binary_string): short ones,
\* length fields 0, 1, 2, 3, 2^16 + 1, 2^24 + 1, 2^31 + 1, max_length and
\* max_length + 1, with too few, exactly enough and too many bits after
\* them, and bytes that are not UTF-8
DecodeStreams ==
    RawStreams
    \cup {Run(0, 31), Run(0, 32), Run(0, 40), Run(1, 40)}
    \cup {Framed(1, <<>>), Cut(Framed(1, <<65>>), 1), Framed(1, <<65>>),
          Framed(1, <<255>>), Framed(1, <<65, 66>>), Framed(2, <<65>>),
          Framed(2, <<195, 169>>), Framed(2, <<195, 169, 255>>),
          Framed(2, <<128, 191>>), Framed(3, <<65, 195, 66>>),
          Framed(65537, <<65>>), Framed(16777217, <<65>>),
          <<1>> \o Run(0, 30) \o <<1>> \o BytesToBits(<<65>>),
          Cut(Framed(max_length, Letters(max_length)), 1),
          Framed(max_length + 1, Letters(max_length + 1))}

DecodeRequests ==
    {[op |-> "binary_to_text", binary_string |-> b] : b \in DecodeStreams}

\* what may follow the first 32 + 8n bits of a frame: nothing, the
\* delimiter, a zero byte, three bits, "A"
Trailers == {<<>>, Run(1, 8), Run(0, 8), <<1, 0, 1>>, BytesToBits(<<65>>)}

\* direct calls text_to_binary(text)
EncodeRequests == {[op |-> "text_to_binary", text |-> t] : t \in CodecTexts}

\* requests to the /embed endpoint of app/api/v1/endpoints/embed.py: an
\* Optional form field is None when it was not sent, and Some(v) otherwise
None == <<>>
Some(v) == <<v>>

\* a 626 x 64 image of one gray colour: 313 * 32 = 10016 blocks, room for
\* 80128 bits
TallGray ==
    [h |-> 626, w |-> 64,
     a |-> [y \in 0..625 |-> [x \in 0..63 |-> [c \in 0..2 |-> 128]]]]

\* "A" * 10001 sent to /embed
LongRequest == [op |-> "embed_text", secretText |-> Run(65, max_length + 1)]

\* "A" * 10000, the text of test_payload_capacity_limits
large_text == Run(65, max_length)

\* secretText values: not sent, empty, "A", "e-acute", "HI", 3, 15 and 50
\* letters, and large_text
DataTexts ==
    {None} \cup {Some(t) : t \in {<<>>, <<65>>, <<233>>, Hi, Letters(3),
                                  Letters(15), FiftyChars, large_text}}

\* secretFile values: not sent, or a file of so many bytes
DataFiles == {None} \cup {Some([size |-> n]) : n \in {0, 3, 4}}

PayloadCaps == {9, 10, 30, 40, 90, 91}

\* cover images of 1x1, 3x1, 4x5, 4x6, 10x10 and 100x100 pixels
\* images and byte strings for _lsb_embed: b"", "A", "HI", bytes of ones, and
\* byte strings that hold fifteen 1 bits followed by a 0
LsbCovers ==
    {Cover(1, 2, "rgb"), Cover(2, 3, "rgb"), Cover(4, 6, "rgb"),
     Cover(4, 6, "flat11")}
LsbRequests ==
    {[op |-> "lsb", data |-> d] :
        d \in {<<>>, <<65>>, Hi, <<255>>, <<255, 255>>, <<0, 0>>, <<255, 254>>,
               <<65, 255, 254>>, <<127, 255, 0>>, <<3, 255, 248>>}}

DataCovers ==
    {Cover(1, 1, "flat00"), Cover(1, 3, "ramp"), Cover(4, 5, "ramp"),
     Cover(4, 6, "rgb"), Cover(10, 10, "soft"), Cover(100, 100, "flat00")}

DataRequests ==
    {[op |-> "embed_data", content_type |-> "image/png", secretType |-> "text",
      secretText |-> t, secretFile |-> None, payloadCap |-> p] :
         t \in DataTexts, p \in PayloadCaps}
    \cup {[op |-> "embed_data", content_type |-> "image/png",
           secretType |-> "file", secretText |-> None, secretFile |-> f,
           payloadCap |-> p] : f \in DataFiles, p \in {30, 40}}
    \cup {[op |-> "embed_data", content_type |-> c, secretType |-> k,
           secretText |-> Some(FiftyChars), secretFile |-> None,
           payloadCap |-> 30] :
              c \in {"image/png", "text/plain"}, k \in {"text", "other"}}

---------------------------------------------------------------------------
(* State                                                                   *)

VARIABLES
    pc,         \* "start", "embedded", "rejected", "extracted", "scanned",
                \* "encoded", "decoded", "measured", "service_measured",
                \* "data_rejected", "data_embedded", "sized", "read",
                \* "failed", "lsb_rejected", "lsb_embedded", "lsb_extracted"
    req,        \* the call: its operation and payload
    cover,      \* the cover image as the caller decoded it
    arrays,     \* the arrays in memory, by name
    stego_ref,  \* the name of the array adaptive_lsb_embed returned
    embedded,   \* what adaptive_lsb_embed computed
    response,   \* the answer of the handler, or the value the call returned
    extraction, \* what adaptive_lsb_extract computed
    settings,   \* settings of the application: its environment
    now,        \* the time datetime.now() reads, in seconds
    requests,   \* RateLimitMiddleware.requests: per IP, the recorded times
    passed,     \* per IP, the times of the requests given to call_next
    outcome,    \* the last request dispatched and what became of it
    sent        \* requests dispatched at this instant, requests of the
                \* quiet client, and clock steps so far

vars == <<pc, req, cover, arrays, stego_ref, embedded, response, extraction,
          settings, now, requests, passed, outcome, sent>>

\* the state of the rate limiter
rate_vars == <<settings, now, requests, passed, outcome, sent>>

Nil == "nil"

\* no middleware is part of the calls on the image functions
NoTraffic ==
    /\ settings = Nil
    /\ now = 0
    /\ requests = <<>>
    /\ passed = <<>>
    /\ outcome = Nil
    /\ sent = Nil

Init ==
    /\ NoTraffic
    /\ pc = "start"
    /\ \/ cover \in Covers /\ req \in Requests
       \/ cover \in {UniformGray(g) : g \in GrayLevels} /\ req = HiRequest
       \/ cover \in Uploads /\ req \in {ExtractRequest} \cup ReadRequests
       \/ cover = Cover(1, 1, "flat00")
          /\ req \in EncodeRequests \cup DecodeRequests
       \/ cover \in DataCovers /\ req \in DataRequests
       \/ cover \in LsbCovers /\ req \in LsbRequests
    /\ arrays = [cover_array |-> cover, stego_array |-> Nil]
    /\ stego_ref = Nil
    /\ embedded = Nil
    /\ response = Nil
    /\ extraction = Nil

\* no copy: stego_image = cover_image, the same array under two names
NpAlias(name) == name

\* cover_image.copy(): the name of a fresh array
NpCopy(name) == "stego_array"

\* the state when adaptive_lsb_embed returns res, having written into the
\* array named target
Returned(copied, target, binary_data, res) ==
    /\ arrays' = [copied EXCEPT ![target] = res.stego_image]
    /\ stego_ref' = target
    /\ embedded' = [binary_data |-> binary_data,
                    threshold |-> res.threshold,
                    bits |-> res.bits,
                    data_index |-> res.data_index,
                    pixels |-> res.pixels]

\* stego_image = cover_image.copy(), then the rest of adaptive_lsb_embed
CopyAndEmbed(name, target, copied, binary_data) ==
    Returned(copied, target, binary_data,
             AdaptiveLsbEmbed(copied[name], copied[target], binary_data))

\* the call adaptive_lsb_embed(arrays[name], binary_data) and its return value
RunEmbed(name, binary_data) ==
    CopyAndEmbed(name, NpCopy(name),
                 [arrays EXCEPT ![NpCopy(name)] = arrays[name]], binary_data)

\* str.strip(): leading and trailing whitespace removed (here: spaces)
RECURSIVE LStrip(_)
LStrip(text) == IF text # <<>> /\ Head(text) = 32 THEN LStrip(Tail(text)) ELSE text
RECURSIVE RStrip(_)
RStrip(text) ==
    IF text # <<>> /\ text[Len(text)] = 32
    THEN RStrip(SubSeq(text, 1, Len(text) - 1))
    ELSE text
Strip(text) == RStrip(LStrip(text))

\* a wrong bound: one bit per pixel
MaxCapacityOneBit(img) == (img.h \div 2) * (img.w \div 2) * 4

\* a wrong bound: every bit of every channel value
MaxCapacityAllBits(img) == img.h * img.w * 3 * 8

\* max_capacity = (h // 2) * (w // 2) * 4 * 2
MaxCapacity(img) == (img.h \div 2) * (img.w \div 2) * 4 * 2

\* the end of embed_text: the JSON answer with capacityInfo, or the 500 of
\* "except Exception" when calculate_embedding_capacity raised
EmbedTextAnswer(secretText, binary_data, capacity_info) ==
    IF capacity_info.error # "none"
    THEN /\ pc' = "failed"
         /\ response' = [status_code |-> 500,
                         detail |-> "Embedding failed: " \o capacity_info.error]
    ELSE /\ pc' = "embedded"
         /\ response' = [status_code |-> 200,
                         textLength |-> Len(secretText),
                         binaryLength |-> Len(binary_data),
                         capacityInfo |-> capacity_info]

\* POST /embed: embed_text(coverImage, secretText), for an upload that is an
\* image.  After embedding the handler computes metrics and pictures from the
\* two arrays without writing to them, and capacity_info from cover_array,
\* which adaptive_lsb_embed copied and left as it was; of its answer the
\* status, the two lengths and capacityInfo are kept.
EmbedText ==
    /\ pc = "start"
    /\ req.op = "embed_text"
    /\ LET secretText == req.secretText
           cover_array == arrays["cover_array"]
           binary_data == TextToBinary(secretText)
           max_capacity == MaxCapacity(cover_array)
       IN  IF secretText = <<>> \/ Len(Strip(secretText)) = 0
           THEN /\ pc' = "rejected"
                /\ response' = [status_code |-> 400,
                                detail |-> "Secret text cannot be empty"]
                /\ UNCHANGED <<arrays, stego_ref, embedded>>
           ELSE IF Len(binary_data) > max_capacity
           THEN /\ pc' = "rejected"
                /\ response' = [status_code |-> 400,
                                detail |-> "Text too long. Max capacity: ~N bytes",
                                N |-> max_capacity \div 8]
                /\ UNCHANGED <<arrays, stego_ref, embedded>>
           ELSE /\ RunEmbed("cover_array", binary_data)
                /\ EmbedTextAnswer(secretText, binary_data,
                                   CalculateEmbeddingCapacity(
                                       cover_array,
                                       SobelEdgeDetection(cover_array)))
    /\ UNCHANGED <<req, cover, extraction>>
    /\ UNCHANGED rate_vars

\* a direct call adaptive_lsb_embed(cover_image, binary_data)
CallAdaptiveLsbEmbed ==
    /\ pc = "start"
    /\ req.op = "adaptive_lsb_embed"
    /\ pc' = "embedded"
    /\ RunEmbed("cover_array", req.binary_data)
    /\ UNCHANGED <<req, cover, response, extraction>>
    /\ UNCHANGED rate_vars

\* adaptive_lsb_extract(stego_image) on the array the embedder returned; or
\* a direct call adaptive_lsb_extract(stego_image, max_bits) on an image
CallAdaptiveLsbExtract ==
    /\ \/ /\ pc = "embedded"
          /\ pc' = "extracted"
          /\ extraction' = AdaptiveLsbExtract(arrays[stego_ref], max_bits_default)
       \/ /\ pc = "start"
          /\ req.op = "adaptive_lsb_extract"
          /\ pc' = "read"
          /\ extraction' = AdaptiveLsbExtract(arrays["cover_array"], req.max_bits)
    /\ UNCHANGED <<req, cover, arrays, stego_ref, embedded, response>>
    /\ UNCHANGED rate_vars

\* POST /extract: extract_text(stegoImage), for an upload that is an image;
\* the upload is the array cover_array
ExtractText ==
    /\ pc = "start"
    /\ req.op = "extract_text"
    /\ pc' = "scanned"
    /\ extraction' = AdaptiveLsbExtract(arrays["cover_array"], max_bits_default)
    /\ response' = IF extraction'.text = <<>>
                   THEN [status_code |-> 200, success |-> FALSE,
                         message |-> "No text found or extraction failed",
                         extractedText |-> <<>>]
                   ELSE [status_code |-> 200, success |-> TRUE,
                         message |-> "Text extracted successfully",
                         extractedText |-> extraction'.text]
    /\ UNCHANGED <<req, cover, arrays, stego_ref, embedded>>
    /\ UNCHANGED rate_vars

\* a direct call text_to_binary(text); no image takes part
CallTextToBinary ==
    /\ pc = "start"
    /\ req.op = "text_to_binary"
    /\ pc' = "encoded"
    /\ response' = [binary |-> TextToBinary(req.text)]
    /\ UNCHANGED <<req, cover, arrays, stego_ref, embedded, extraction>>
    /\ UNCHANGED rate_vars

\* binary_to_text(binary_string) returns
Decode(binary_string) ==
    /\ pc' = "decoded"
    /\ response' = [binary_string |-> binary_string,
                    text |-> BinaryToText(binary_string)]
    /\ UNCHANGED <<req, cover, arrays, stego_ref, embedded, extraction>>
    /\ UNCHANGED rate_vars

\* a direct call binary_to_text(binary_string); or, after text_to_binary
\* returned, a call on its result without the delimiter byte, followed by
\* any trailer
CallBinaryToText ==
    \/ /\ pc = "start"
       /\ req.op = "binary_to_text"
       /\ Decode(req.binary_string)
    \/ /\ pc = "encoded"
       /\ \E s \in Trailers : Decode(Cut(response.binary, 8) \o s)

\* calculate_psnr(cover_array, stego_array) on the cover and the array the
\* embedder returned
CallCalculatePsnr ==
    /\ pc = "embedded"
    /\ pc' = "measured"
    /\ response' = [psnr |-> CalculatePsnr(arrays["cover_array"],
                                           arrays[stego_ref])]
    /\ UNCHANGED <<req, cover, arrays, stego_ref, embedded, extraction>>
    /\ UNCHANGED rate_vars

\* _calculate_embedding_metrics of the service on the same two images
CallCalculateEmbeddingMetrics ==
    /\ pc = "embedded"
    /\ pc' = "service_measured"
    /\ response' = [psnr |-> CalculateEmbeddingMetrics(arrays["cover_array"],
                                                       arrays[stego_ref])]
    /\ UNCHANGED <<req, cover, arrays, stego_ref, embedded, extraction>>
    /\ UNCHANGED rate_vars

\* raise HTTPException(status_code=400, detail=...)
DataReject(detail) ==
    /\ pc' = "data_rejected"
    /\ response' = [status_code |-> 400, detail |-> detail]

\* the mock embedding and the answer: the stego image is the cover plus a
\* random noise of -2..2 on every value, clipped to 0..255; the psnr is a
\* random number from 40.0 to 50.0
DataAccept(cover_image, secret_size) ==
    /\ pc' = "data_embedded"
    /\ response' = [status_code |-> 200,
                    success |-> TRUE,
                    stegoImage |-> [cover |-> cover_image,
                                    noise_lo |-> -2, noise_hi |-> 2],
                    psnr |-> Hundredths(4000, 5000),
                    payloadBytes |-> secret_size]

\* a wrong unit: the bytes of the secret, not its bits
RequiredCapacityInBytes(secret_size) == secret_size

\* required_capacity = secret_size * 8
RequiredCapacity(secret_size) == secret_size * 8

\* len(secret_data)
SecretSize(r) ==
    IF r.secretType = "text" THEN Len(Utf8Encode(r.secretText[1]))
    ELSE IF r.secretType = "file" THEN r.secretFile[1].size
    ELSE 0

\* the capacity check of embed_data.  capacity_percentage is the float
\* (required_capacity / max_capacity) * 100; when the exact percentage
\* equals payloadCap its rounding decides, and the model allows both
\* outcomes.
CheckCapacity(cover_image, secret_size, max_capacity, required_capacity, payloadCap) ==
    \/ /\ 100 * required_capacity >= payloadCap * max_capacity
       /\ DataReject("Secret data too large")
    \/ /\ 100 * required_capacity <= payloadCap * max_capacity
       /\ DataAccept(cover_image, secret_size)

\* POST /embed of app/api/v1/endpoints/embed.py: embed_data(coverImage,
\* secretText, secretFile, secretType, payloadCap, ...); the upload is the
\* array cover_array
EmbedData ==
    /\ pc = "start"
    /\ req.op = "embed_data"
    /\ IF req.content_type # "image/png"
       THEN DataReject("Cover file must be an image")
       ELSE IF req.secretType = "text"
               /\ (req.secretText = None \/ req.secretText = Some(<<>>))
       THEN DataReject("Secret text is required when type is 'text'")
       ELSE IF req.secretType = "file" /\ req.secretFile = None
       THEN DataReject("Secret file is required when type is 'file'")
       ELSE IF req.payloadCap < 10 \/ req.payloadCap > 90
       THEN DataReject("Payload capacity must be between 10-90%")
       ELSE CheckCapacity(arrays["cover_array"], SecretSize(req),
                          arrays["cover_array"].w * arrays["cover_array"].h * 3,
                          RequiredCapacity(SecretSize(req)), req.payloadCap)
    /\ UNCHANGED <<req, cover, arrays, stego_ref, embedded, extraction>>
    /\ UNCHANGED rate_vars

\* calculate_embedding_capacity(cover_array) for the cover that was embedded
\* into
CallCalculateEmbeddingCapacity ==
    /\ pc = "embedded"
    /\ pc' = "sized"
    /\ response' = [capacity_info |->
                       CalculateEmbeddingCapacity(arrays["cover_array"],
                           SobelEdgeDetection(arrays["cover_array"]))]
    /\ UNCHANGED <<req, cover, arrays, stego_ref, embedded, extraction>>
    /\ UNCHANGED rate_vars

\* what _lsb_embed returned or raised
LsbEmbedded(res) ==
    IF res.error # "none"
    THEN /\ pc' = "lsb_rejected"
         /\ response' = res
         /\ UNCHANGED <<arrays, stego_ref>>
    ELSE /\ pc' = "lsb_embedded"
         /\ response' = [error |-> "none"]
         /\ arrays' = [arrays EXCEPT !["stego_array"] = res.image]
         /\ stego_ref' = "stego_array"

\* SteganographyService._lsb_embed(image, data, params)
CallLsbEmbed ==
    /\ pc = "start"
    /\ req.op = "lsb"
    /\ LsbEmbedded(LsbEmbed(arrays["cover_array"], req.data))
    /\ UNCHANGED <<req, cover, embedded, extraction>>
    /\ UNCHANGED rate_vars

\* SteganographyService._lsb_extract(image, params) on the image _lsb_embed
\* returned
CallLsbExtract ==
    /\ pc = "lsb_embedded"
    /\ pc' = "lsb_extracted"
    /\ extraction' = [data |-> LsbExtract(arrays[stego_ref])]
    /\ UNCHANGED <<req, cover, arrays, stego_ref, embedded, response>>
    /\ UNCHANGED rate_vars

Next ==
    \/ EmbedText
    \/ CallAdaptiveLsbEmbed
    \/ CallAdaptiveLsbExtract
    \/ ExtractText
    \/ CallTextToBinary
    \/ CallBinaryToText
    \/ CallCalculatePsnr
    \/ CallCalculateEmbeddingMetrics
    \/ EmbedData
    \/ CallCalculateEmbeddingCapacity
    \/ CallLsbEmbed
    \/ CallLsbExtract

Spec == Init /\ [][Next]_vars

\* the same requests and, in addition, LongRequest with the cover TallGray
InitLong ==
    /\ NoTraffic
    /\ pc = "start"
    /\ cover = TallGray
    /\ req = LongRequest
    /\ arrays = [cover_array |-> cover, stego_array |-> Nil]
    /\ stego_ref = Nil
    /\ embedded = Nil
    /\ response = Nil
    /\ extraction = Nil

SpecLong == (Init \/ InitLong) /\ [][Next]_vars

---------------------------------------------------------------------------
(* RateLimitMiddleware                                                     *)

max_requests_per_minute == 60
window_size == 60

\* timedelta(hours=1) in seconds
cleanup_age == 3600

\* the clients: _get_client_ip(request)
Ips == {"10.0.0.1", "10.0.0.2"}

\* the second client sends at most MaxQuiet requests
QuietIp == "10.0.0.2"
MaxQuiet == 1

\* the clock is read at most MaxTicks + 1 different times, each later than
\* the one before by a second, by a second less than the window, by the
\* window, or by an hour
MaxTicks == 1
Steps == {1, window_size - 1, window_size, cleanup_age}

\* the requests of one instant: none, one, or one less than, exactly, or one
\* more than the limit
BurstSizes ==
    {0, 1, max_requests_per_minute - 1, max_requests_per_minute,
     max_requests_per_minute + 1}

\* _cleanup_old_requests(current_time): the lists without the times that
\* are not after cutoff_time, and without the lists left empty
CleanupOldRequests(reqs, current_time) ==
    LET After(req_time) == req_time > current_time - cleanup_age
        kept == [ip \in DOMAIN reqs |-> SelectSeq(reqs[ip], After)]
    IN  [ip \in {i \in DOMAIN reqs : kept[i] # <<>>} |-> kept[ip]]

\* if ip_address not in self.requests: self.requests[ip_address] = []
WithHistory(reqs, ip_address) ==
    IF ip_address \in DOMAIN reqs THEN reqs
    ELSE [ip \in DOMAIN reqs \cup {ip_address} |->
             IF ip = ip_address THEN <<>> ELSE reqs[ip]]

\* recent_requests
RecentRequests(ip_requests, current_time) ==
    LET Recent(req_time) == current_time - req_time < window_size
    IN  SelectSeq(ip_requests, Recent)

\* a wrong comparison: len(recent_requests) > self.max_requests_per_minute
OverLimitByOne(recent_requests) ==
    Len(recent_requests) > max_requests_per_minute

\* len(recent_requests) >= self.max_requests_per_minute
OverLimit(recent_requests) ==
    Len(recent_requests) >= max_requests_per_minute

\* the requests of ip_address given to call_next less than window_size
\* seconds ago
Young(ip_address) ==
    Cardinality({i \in 1..Len(passed[ip_address]) :
                    now - passed[ip_address][i] < window_size})

\* the smallest age among recent_requests
RECURSIVE MinAge(_, _)
MinAge(recent_requests, current_time) ==
    IF Len(recent_requests) = 1 THEN current_time - recent_requests[1]
    ELSE Min(current_time - Head(recent_requests),
             MinAge(Tail(recent_requests), current_time))

\* dispatch from "Check rate limits" on, with the cleaned histories reqs
CheckRateLimits(ip_address, reqs, recent_requests) ==
    IF OverLimit(recent_requests)
    THEN /\ requests' = reqs
         /\ passed' = passed
         /\ outcome' = [ip |-> ip_address, result |-> "RateLimitError",
                     young |-> Young(ip_address),
                     retry_after |-> window_size - MinAge(recent_requests, now)]
    ELSE /\ requests' = [reqs EXCEPT ![ip_address] = Append(@, now)]
         /\ passed' = [passed EXCEPT ![ip_address] = Append(@, now)]
         /\ outcome' = [ip |-> ip_address, result |-> "passed",
                     young |-> Young(ip_address),
                     remaining |-> max_requests_per_minute
                                   - Len(recent_requests) - 1]

\* RateLimitMiddleware.dispatch(request, call_next) for a request of
\* ip_address
Dispatch(ip_address) ==
    /\ pc = "serving"
    /\ sent.burst <= max_requests_per_minute
    /\ ip_address = QuietIp => sent.quiet < MaxQuiet
    /\ sent' = [sent EXCEPT !.burst = @ + 1,
                            !.quiet = IF ip_address = QuietIp THEN @ + 1 ELSE @]
    /\ IF settings.environment = "development"
       THEN /\ passed' = [passed EXCEPT ![ip_address] = Append(@, now)]
            /\ outcome' = [ip |-> ip_address, result |-> "passed",
                        young |-> Young(ip_address)]
            /\ UNCHANGED requests
       ELSE CheckRateLimits(
                ip_address,
                WithHistory(CleanupOldRequests(requests, now), ip_address),
                RecentRequests(
                    WithHistory(CleanupOldRequests(requests, now),
                                ip_address)[ip_address], now))
    /\ UNCHANGED <<pc, req, cover, arrays, stego_ref, embedded, response,
                   extraction, settings, now>>

\* time passes between two requests
Tick ==
    /\ pc = "serving"
    /\ sent.ticks < MaxTicks
    /\ sent.burst \in BurstSizes
    /\ \E d \in Steps : now' = now + d
    /\ sent' = [sent EXCEPT !.burst = 0, !.ticks = @ + 1]
    /\ UNCHANGED <<pc, req, cover, arrays, stego_ref, embedded, response,
                   extraction, settings, requests, passed, outcome>>

\* the middleware after __init__, in either environment
InitRate ==
    /\ pc = "serving"
    /\ req = [op |-> "dispatch"]
    /\ cover = Nil
    /\ arrays = Nil
    /\ stego_ref = Nil
    /\ embedded = Nil
    /\ response = Nil
    /\ extraction = Nil
    /\ settings \in {[environment |-> e] : e \in {"development", "production"}}
    /\ now = 0
    /\ requests = <<>>
    /\ passed = [ip \in Ips |-> <<>>]
    /\ outcome = [ip |-> Nil, result |-> Nil, young |-> 0]
    /\ sent = [burst |-> 0, quiet |-> 0, ticks |-> 0]

NextRate ==
    \/ \E ip_address \in Ips : Dispatch(ip_address)
    \/ Tick

SpecRate == InitRate /\ [][NextRate]_vars

---------------------------------------------------------------------------
(* Properties                                                              *)

\* adaptive_lsb_embed has returned a stego image
Returns == pc \in {"embedded", "extracted"}

\* the text whose framing was embedded, if it is one of the texts sent
SentTexts == (Texts \cup {Hi}) \ {<<>>}

\* the capacity of a cover whose blocks were given `bits` bits per pixel:
\* the sum over the blocks of 4 pixels times the bits per pixel of the block
Capacity(bits) == 4 * SumSeq(bits, 1, Len(bits))

\* C1 (round trip): when the framing of a non-empty text t was embedded and
\* its length is at most the capacity of the cover, extracting from the
\* stego image returns exactly t.
C1_RoundTrip ==
    \A t \in SentTexts :
        (/\ pc = "extracted"
         /\ embedded.binary_data = TextToBinary(t)
         /\ Len(embedded.binary_data) <= Capacity(embedded.bits))
        => extraction.text = t

\* C2 (mask stability): the threshold and the bits per pixel of every block
\* that adaptive_lsb_extract computes from the stego image equal the ones
\* adaptive_lsb_embed computed from the cover.
C2_MaskStable ==
    pc = "extracted"
    => /\ extraction.threshold = embedded.threshold
       /\ extraction.bits = embedded.bits

\* C3 (capacity rejection): a bit string longer than the capacity of the
\* cover is never answered with a stego image, and when no stego image is
\* returned the cover is as it was.
C3_CapacityRejection ==
    /\ Returns => Len(embedded.binary_data) <= Capacity(embedded.bits)
    /\ pc = "rejected" => arrays["cover_array"] = cover

\* C4 (no partial embedding): when adaptive_lsb_embed has returned a stego
\* image, the number of bits it consumed is the length of the bit string.
C4_NoPartialEmbedding ==
    pc = "embedded" => embedded.data_index = Len(embedded.binary_data)

\* C6 (blue channel only): the red and green values of every pixel of the
\* stego image adaptive_lsb_embed returned equal those of the cover.
C6_BlueChannelOnly ==
    Returns
    => \A y \in Rows(cover), x \in Cols(cover) :
           /\ arrays[stego_ref].a[y][x][0] = cover.a[y][x][0]
           /\ arrays[stego_ref].a[y][x][1] = cover.a[y][x][1]

\* a stego image was returned in which some blue value was changed
C6_Witness ==
    /\ pc = "embedded"
    /\ \E y \in Rows(cover), x \in Cols(cover) :
           arrays[stego_ref].a[y][x][2] # cover.a[y][x][2]

\* pixel (y, x) lies in one of the 2x2 blocks the loops visit
InBlocks(img, y, x) ==
    y < block_size * BlocksH(img) /\ x < block_size * BlocksW(img)

\* the place of pixel (y, x) in the traversal, counted from 0: blocks row by
\* row, and inside a block its pixels row by row
Rank(img, y, x) ==
    4 * ((y \div 2) * BlocksW(img) + (x \div 2)) + 2 * (y % 2) + (x % 2)

\* C7 (untouched pixels): every pixel the traversal did not reach before the
\* payload was exhausted (the pixels after the embedded.pixels pixels that
\* received payload bits, and the pixels outside every block) is identical to
\* the cover in all three channels.
C7_UntouchedPixels ==
    Returns
    => \A y \in Rows(cover), x \in Cols(cover) :
           (~InBlocks(cover, y, x) \/ Rank(cover, y, x) >= embedded.pixels)
           => arrays[stego_ref].a[y][x] = cover.a[y][x]

\* the payload was exhausted inside the image, after changing some pixel
C7_Witness ==
    /\ pc = "embedded"
    /\ embedded.pixels > 0
    /\ embedded.data_index = Len(embedded.binary_data)
    /\ \E y \in Rows(cover), x \in Cols(cover) :
           InBlocks(cover, y, x) /\ Rank(cover, y, x) >= embedded.pixels
    /\ arrays[stego_ref] # cover

\* C8 (cover not mutated): after adaptive_lsb_embed returns, the array passed
\* as cover_image holds the values it held before the call, and the stego
\* image is another array.
C8_CoverNotMutated ==
    Returns => arrays["cover_array"] = cover /\ stego_ref # "cover_array"

\* a stego image that differs from the cover was returned
C8_Witness ==
    /\ pc = "embedded"
    /\ arrays[stego_ref] # cover
    /\ embedded.data_index > 0

\* C9 (scenario 1): for a 64 x 64 cover of one gray colour and the text
\* "HI", embedding succeeds and extraction returns exactly "HI".
C9_Scenario1 ==
    (cover.h = 64 /\ cover.w = 64 /\ req = HiRequest)
    => /\ pc # "rejected"
       /\ pc = "extracted" => extraction.text = Hi

\* a text of 50 characters was sent to /embed with a 4 x 4 cover, and the
\* handler has answered
Scenario2 ==
    /\ cover.h = 4 /\ cover.w = 4
    /\ req = [op |-> "embed_text", secretText |-> FiftyChars]
    /\ pc # "start"

\* the numbers an error response carries: the byte count of its message,
\* and the same as bits
Counts(resp) == {resp.N, 8 * resp.N}

C11_NoDataFound ==
    pc = "scanned" => extraction.text = <<>> /\ response.success = FALSE

\* the number written in bits lo..hi of a bit string, most significant first
RECURSIVE BitValue(_, _, _)
BitValue(bits, lo, hi) ==
    IF lo > hi THEN 0 ELSE 2 * BitValue(bits, lo, hi - 1) + bits[hi]

\* the 32-bit length field of a bit string is above 10000
FieldTooLarge(bits) ==
    (\E i \in 1..18 : bits[i] = 1) \/ BitValue(bits, 19, 32) > 10000

\* a bit string that cannot be decoded: fewer than 32 bits, a length field
\* that is 0 or above 10000, or fewer bits than the length field asks for
Malformed(bits) ==
    \/ Len(bits) < 32
    \/ FieldTooLarge(bits)
    \/ BitValue(bits, 19, 32) = 0
    \/ Len(bits) < 32 + 8 * BitValue(bits, 19, 32)

\* C12 (no exception on undecodable images): for every image sent to
\* /extract the handler answers with status 200, and when the extracted bits
\* cannot be decoded (no 2x2 block, length 0, above 10000, or more than the
\* bits available) the answer is the empty "no data found" result.
C12_NoDataNotError ==
    pc = "scanned"
    => /\ response.status_code = 200
       /\ (NumBlocks(cover) = 0 \/ Malformed(extraction.extracted_bits))
          => /\ extraction.text = <<>>
             /\ response.success = FALSE
             /\ response.extractedText = <<>>

\* an image with blocks was scanned whose first 32 bits give a length from
\* 1 to 10000 that is larger than the bits available
C12_Witness ==
    /\ pc = "scanned"
    /\ Len(extraction.extracted_bits) >= 40
    /\ ~FieldTooLarge(extraction.extracted_bits)
    /\ BitValue(extraction.extracted_bits, 19, 32) > 0
    /\ Len(extraction.extracted_bits)
           < 32 + 8 * BitValue(extraction.extracted_bits, 19, 32)
    /\ extraction.text = <<>>

\* b is the frame of the bytes text_bytes: 32 bits of length, most significant
\* first, the bytes, each most significant bit first, and eight 1 bits
IsFrameOf(b, text_bytes, n) ==
    /\ Len(b) = 32 + 8 * n + 8
    /\ \A i \in 1..Len(b) : b[i] \in {0, 1}
    /\ BitValue(b, 1, 32) = n
    /\ \A k \in 1..n :
           BitValue(b, 32 + 8 * (k - 1) + 1, 32 + 8 * k) = text_bytes[k]
    /\ \A i \in (32 + 8 * n + 1)..(32 + 8 * n + 8) : b[i] = 1

\* C13 (payload framing): for every non-empty text with n UTF-8 bytes,
\* text_to_binary returns exactly 32 + 8n + 8 symbols 0 or 1: the first 32
\* are n as a big-endian number, the next 8n are the UTF-8 bytes in order,
\* each most significant bit first, and the last 8 are all 1.
C13_Framing ==
    (pc = "encoded" /\ req.text # <<>>)
    => IsFrameOf(response.binary, Utf8Encode(req.text),
                 Len(Utf8Encode(req.text)))

\* text_to_binary("e-acute") returned 00000000 00000000 00000000 00000010
\* 11000011 10101001 11111111
C13_Witness ==
    /\ pc = "encoded"
    /\ req.text = <<233>>
    /\ response.binary =
           <<0, 0, 0, 0, 0, 0, 0, 0,  0, 0, 0, 0, 0, 0, 0, 0,
             0, 0, 0, 0, 0, 0, 0, 0,  0, 0, 0, 0, 0, 0, 1, 0,
             1, 1, 0, 0, 0, 0, 1, 1,  1, 0, 1, 0, 1, 0, 0, 1,
             1, 1, 1, 1, 1, 1, 1, 1>>

\* the bytes written in the 8n bits after the header of a bit string
BytesAfterHeader(bits, n) ==
    Str([k \in 1..n |-> BitValue(bits, 32 + 8 * (k - 1) + 1, 32 + 8 * k)])

\* the text of the length-many bytes after the header
Decoded(bits) == Utf8Decode(BytesAfterHeader(bits, BitValue(bits, 19, 32)), 1)

\* C14 as stated (decode failure conditions): binary_to_text returns the
\* empty result exactly when the bit string has fewer than 32 bits, or its
\* length field is 0 or above 10000, or it has fewer than 32 + 8*length bits;
\* for every other bit string it decodes the 8*length bits after the header.
C14_DecodeFailure ==
    pc = "decoded"
    => /\ (response.text = <<>>) <=> Malformed(response.binary_string)
       /\ ~Malformed(response.binary_string)
          => response.text = Decoded(response.binary_string)

\* C14 amended: in each of the three cases the result is empty; for every
\* other bit string the result is the text of the 8*length bits after the
\* header, decoded as UTF-8 with invalid bytes left out, which is empty
\* too when none of these bytes decodes.
C14_DecodeFailureAmended ==
    pc = "decoded"
    => /\ Malformed(response.binary_string) => response.text = <<>>
       /\ ~Malformed(response.binary_string)
          => response.text = Decoded(response.binary_string)

\* a bit string with length field 1 and the byte 0xFF after it was decoded
\* to the empty text
C14_Witness ==
    /\ pc = "decoded"
    /\ ~Malformed(response.binary_string)
    /\ BytesAfterHeader(response.binary_string, 1) = <<255>>
    /\ response.text = <<>>

\* C15 (codec round trip, trailing data ignored): for every text t of 1 to
\* 10000 UTF-8 bytes and every trailer s, binary_to_text of the first
\* 32 + 8n bits of text_to_binary(t) followed by s is t.
C15_CodecRoundTrip ==
    (/\ pc = "decoded"
     /\ req.op = "text_to_binary"
     /\ Len(Utf8Encode(req.text)) \in 1..max_length)
    => response.text = req.text

\* the frame of "e-acute" followed by "A" instead of the delimiter was
\* decoded to "e-acute"
C15_Witness ==
    /\ pc = "decoded"
    /\ req.op = "text_to_binary"
    /\ req.text = <<233>>
    /\ Len(response.binary_string) = 56
    /\ BitValue(response.binary_string, 49, 56) = 65
    /\ response.text = <<233>>

\* C16 (empty payload): text_to_binary of the empty text is the empty bit
\* string, and adaptive_lsb_embed of the empty bit string returns an image
\* equal to the cover in every pixel and channel.
C16_EmptyPayload ==
    /\ (pc = "encoded" /\ req.text = <<>>) => response.binary = <<>>
    /\ (Returns /\ req.op = "adaptive_lsb_embed" /\ req.binary_data = <<>>)
       => /\ arrays[stego_ref] = cover
          /\ embedded.data_index = 0

\* the empty bit string was embedded into a cover with at least two blocks
C16_Witness ==
    /\ pc = "embedded"
    /\ req.op = "adaptive_lsb_embed"
    /\ req.binary_data = <<>>
    /\ NumBlocks(cover) >= 2
    /\ arrays[stego_ref] = cover

\* C17 (PSNR of identical images): when the original and the modified image
\* are equal in every pixel and channel, the PSNR operation returns plus
\* infinity, not a finite or clamped value.
C17_PsnrIdentical ==
    (/\ pc \in {"measured", "service_measured"}
     /\ arrays[stego_ref] = arrays["cover_array"])
    => response.psnr = PlusInfinity

\* the bytes of the secret of a request to the endpoint of embed.py
SecretBytes(r) ==
    CASE r.secretType = "text" /\ r.secretText # None
             -> Len(Utf8Encode(r.secretText[1]))
      [] r.secretType = "file" /\ r.secretFile # None -> r.secretFile[1].size
      [] OTHER -> 0

\* C18 (payload cap of embed.py): every request whose secret size in bits,
\* as a percentage of width x height x 3, exceeds payloadCap is answered
\* with status 400, and no stego image is produced for it.
C18_PayloadCapRejection ==
    (/\ pc \in {"data_rejected", "data_embedded"}
     /\ 100 * 8 * SecretBytes(req) > req.payloadCap * cover.w * cover.h * 3)
    => /\ pc = "data_rejected"
       /\ response.status_code = 400
       /\ "stegoImage" \notin DOMAIN response
       /\ arrays["stego_array"] = Nil

\* 10000 bytes sent with a 100 x 100 image and payloadCap 30 were rejected
\* as too large
C18_Witness ==
    /\ pc = "data_rejected"
    /\ cover.w = 100 /\ cover.h = 100
    /\ req.secretType = "text"
    /\ SecretBytes(req) = 10000
    /\ req.payloadCap = 30
    /\ response.status_code = 400
    /\ response.detail = "Secret data too large"

\* the mask of the strict rule: block b, whose complexity (times 4) is
\* bcs[b], has 2 bits per pixel when its mean is above the threshold and 1
\* bit per pixel otherwise
IsStrictMask(bcs, threshold, bits) ==
    \A b \in 1..Len(bcs) :
        bits[b] = IF bcs[b] * threshold.den > 4 * threshold.num THEN 2 ELSE 1

\* C19 (strict tie-break): on the embed path and on the extract path a
\* block is given 2 bits per pixel only when its mean complexity is
\* strictly greater than the threshold; a block whose mean complexity
\* equals the threshold is given 1 bit per pixel.
C19_StrictTieBreak ==
    /\ Returns
       => IsStrictMask(BlockComplexities(cover, SobelEdgeDetection(cover)),
                       embedded.threshold, embedded.bits)
    /\ pc = "extracted"
       => IsStrictMask(BlockComplexities(arrays[stego_ref],
                                         SobelEdgeDetection(arrays[stego_ref])),
                       extraction.threshold, extraction.bits)

\* every pixel of the image has the colour of its first pixel
IsUniform(img) ==
    \A y \in 0..(img.h - 1) : \A x \in 0..(img.w - 1) : img.a[y][x] = img.a[0][0]

\* every value of the complexity map is zero
IsZeroMap(img, cmap) ==
    \A y \in 0..(img.h - 1) : \A x \in 0..(img.w - 1) : cmap[y][x] = 0

\* C20 (flat image): for every image of one colour with at least one 2x2
\* block the complexity map is zero at every pixel, the threshold is 0, and
\* every block is given 1 bit per pixel, so the capacity is 4 bits per block.
C20_FlatImage ==
    (Returns /\ IsUniform(cover) /\ NumBlocks(cover) >= 1)
    => /\ IsZeroMap(cover, SobelEdgeDetection(cover))
       /\ embedded.threshold.num = 0
       /\ \A b \in 1..NumBlocks(cover) : embedded.bits[b] = 1
       /\ Capacity(embedded.bits) = 4 * NumBlocks(cover)

\* C21 (capacity agrees with the embedder): for every image the total_bits
\* that calculate_embedding_capacity reports equals the sum over the 2x2
\* blocks of 4 times the bits per pixel adaptive_lsb_embed gives the block.
C21_CapacityAgrees ==
    pc = "sized"
    => /\ response.capacity_info.error = "none"
       /\ response.capacity_info.total_bits = Capacity(embedded.bits)

\* the image adaptive_lsb_extract was called on
Scanned == IF pc = "extracted" THEN arrays[stego_ref] ELSE arrays["cover_array"]

\* the number of bits the blocks before block b hold, for the bits per
\* pixel `bits` of the blocks
StartOf(bits, b) == 4 * SumSeq(bits, 1, b - 1)

\* StartOf for every block
Starts(bits) == Str([b \in 1..Len(bits) |-> StartOf(bits, b)])

\* the pixel that holds the i-th bit: blocks row by row, and in a block the
\* pixels row by row; k is the bits per pixel of the block and o the place
\* of the bit in the block, from 0
PixelAt(img, b, k, o) ==
    [y |-> 2 * ((b - 1) \div (img.w \div 2)) + ((o \div k) \div 2),
     x |-> 2 * ((b - 1) % (img.w \div 2)) + ((o \div k) % 2),
     high |-> k = 2 /\ o % 2 = 0]

\* the bit of a blue value that place q holds: bit 1 for the first of two
\* bits, bit 0 otherwise
SymbolIn(img, q) ==
    IF q.high THEN (img.a[q.y][q.x][2] \div 2) % 2 ELSE img.a[q.y][q.x][2] % 2

\* every bit of the accumulator acc is the low bit of a pixel of the
\* even-floored region of img that the traversal gives its place: the o-th
\* bit of block b is bit starts[b] + o + 1 of acc
ReadsBlocksOnly(img, bits, starts, acc) ==
    \A b \in 1..Len(bits) : \A o \in 0..(4 * bits[b] - 1) :
        starts[b] + o + 1 <= Len(acc)
        => /\ PixelAt(img, b, bits[b], o).y < 2 * (img.h \div 2)
           /\ PixelAt(img, b, bits[b], o).x < 2 * (img.w \div 2)
           /\ acc[starts[b] + o + 1] = SymbolIn(img, PixelAt(img, b, bits[b], o))

\* C22 (trailing row and column): the pixels with row index >= 2*floor(H/2)
\* or column index >= 2*floor(W/2) carry no capacity, are never modified by
\* adaptive_lsb_embed, and are never read into the bit accumulator by
\* adaptive_lsb_extract: every accumulated bit is a low bit of a pixel of
\* the even-floored region.
C22_TrailingPixels ==
    /\ Returns
       => /\ Len(embedded.bits) = (cover.h \div 2) * (cover.w \div 2)
          /\ embedded.data_index <= Capacity(embedded.bits)
          /\ \A y \in Rows(cover), x \in Cols(cover) :
                 (y >= 2 * (cover.h \div 2) \/ x >= 2 * (cover.w \div 2))
                 => arrays[stego_ref].a[y][x] = cover.a[y][x]
    /\ pc \in {"extracted", "scanned", "read"}
       => /\ Len(extraction.extracted_bits) <= Capacity(extraction.bits)
          /\ ReadsBlocksOnly(Scanned, extraction.bits, Starts(extraction.bits),
                             extraction.extracted_bits)

\* a 3 x 5 image was embedded into and read back: all 8 pixels of its two
\* blocks were changed, and the trailing row and column were not
C22_Witness ==
    /\ pc = "extracted"
    /\ cover.h = 3 /\ cover.w = 5
    /\ \A y \in 0..1, x \in 0..3 : arrays[stego_ref].a[y][x] # cover.a[y][x]
    /\ Len(extraction.extracted_bits) >= 8

\* C23 (unbounded extraction traversal): adaptive_lsb_extract reads bits from
\* every block of the even-floored region, whatever the image size; the
\* traversal is never cut off before the last block, so the accumulator ends
\* with exactly the capacity of the image it was called on.
C23_FullTraversal ==
    pc \in {"extracted", "scanned", "read"}
    => Len(extraction.extracted_bits) = Capacity(extraction.bits)

\* C24 (mirror traversal): if the bits per pixel of the blocks computed from
\* the stego image equal those computed from the cover, the first len(bits)
\* symbols accumulated by adaptive_lsb_extract are exactly the bit string
\* given to adaptive_lsb_embed, in order.
C24_MirrorTraversal ==
    (pc = "extracted" /\ extraction.bits = embedded.bits)
    => /\ Len(extraction.extracted_bits) >= Len(embedded.binary_data)
       /\ SubSeq(extraction.extracted_bits, 1, Len(embedded.binary_data))
              = embedded.binary_data

\* the blue value v written over the cover's value c in a pixel of a k-bit
\* block, for the payload bits first..last of data that the pixel received:
\* v is in 0..255, keeps the upper 8-k bits of c, has the payload bits as its
\* low k bits, and differs from c by at most 2^k - 1
IsBoundedWrite(v, c, k, data, first, last) ==
    /\ v \in 0..255
    /\ v \div (2 * k) = c \div (2 * k)
    /\ v % (2 * k) = BitValue(data, first, last)
    /\ Abs(v - c) <= 2 * k - 1

\* IsBoundedWrite for the pixel at q
IsBoundedWriteAt(q, stego, img, k, data, first) ==
    IsBoundedWrite(stego.a[q.y][q.x][2], img.a[q.y][q.x][2], k, data, first,
                   Min(first + k - 1, Len(data)))

\* C25 (bounded perturbation): every blue value written by adaptive_lsb_embed
\* into a pixel of a k-bit block lies in 0..255, keeps the upper 8-k bits of
\* the cover's blue value, has the payload bits the pixel received as its
\* low k bits, and differs from the cover's value by at most 2^k - 1.
C25_BoundedPerturbation ==
    Returns
    => \A b \in 1..Len(embedded.bits) : \A p \in 0..3 :
           StartOf(embedded.bits, b) + embedded.bits[b] * p + 1
               <= Len(embedded.binary_data)
           => IsBoundedWriteAt(
                  PixelAt(cover, b, embedded.bits[b], embedded.bits[b] * p),
                  arrays[stego_ref], cover, embedded.bits[b],
                  embedded.binary_data,
                  StartOf(embedded.bits, b) + embedded.bits[b] * p + 1)

\* a blue value of a 2-bit block was changed by 3
C25_Witness ==
    /\ pc = "embedded"
    /\ \E b \in 1..Len(embedded.bits) : \E y \in 0..1, x \in 0..1 :
           /\ embedded.bits[b] = 2
           /\ Abs(arrays[stego_ref].a[PixelAt(cover, b, 1, 0).y + y]
                                      [PixelAt(cover, b, 1, 0).x + x][2]
                  - cover.a[PixelAt(cover, b, 1, 0).y + y]
                           [PixelAt(cover, b, 1, 0).x + x][2]) = 3

\* the number of payload bits that the first n pixels of the traversal take
\* when each takes as many bits as its block gives a pixel
FullRate(bits, n) ==
    4 * SumSeq(bits, 1, n \div 4)
    + (IF n % 4 = 0 THEN 0 ELSE (n % 4) * bits[(n \div 4) + 1])

\* C26 (no partial pixel for framed payloads): when the bit string embedded
\* was produced by text_to_binary, every pixel adaptive_lsb_embed visited
\* took as many payload bits as its block gives a pixel, so no pixel of a
\* 2-bit block was visited with a single payload bit left and the branch
\* bits_to_embed = 1 was not taken.
C26_NoPartialPixel ==
    (Returns /\ \E t \in SentTexts : embedded.binary_data = TextToBinary(t))
    => embedded.data_index = FullRate(embedded.bits, embedded.pixels)

\* the whole framing of a text was embedded and its last bits went into a
\* pixel of a 2-bit block
C26_Witness ==
    /\ pc = "embedded"
    /\ \E t \in SentTexts : embedded.binary_data = TextToBinary(t)
    /\ embedded.data_index = Len(embedded.binary_data)
    /\ embedded.pixels > 0
    /\ embedded.bits[((embedded.pixels - 1) \div 4) + 1] = 2

\* C27 (encode and decode agree on the size limit): every text that
\* embed_text accepts and embeds has a UTF-8 length binary_to_text accepts,
\* 1 to 10000 bytes; so no text longer than 10000 bytes is embedded with
\* status 200 and then extracted as "no data".
C27_SizeLimitAgrees ==
    (Returns /\ req.op = "embed_text" /\ response.status_code = 200)
    => /\ Len(Utf8Encode(req.secretText)) \in 1..max_length
       /\ (pc = "extracted" /\ Len(Utf8Encode(req.secretText)) > max_length)
          => extraction.text # <<>>

\* C28 (no division by zero in capacity reporting): whenever embed_text
\* reaches calculate_embedding_capacity the image has at least one 2x2 block,
\* so the divisions by total_blocks do not fail: embed_text never ends with
\* the 500 of a ZeroDivisionError, and the capacityInfo of every answer has
\* total_blocks > 0.
C28_NoDivisionByZero ==
    req.op = "embed_text"
    => /\ pc # "failed"
       /\ pc = "embedded"
          => /\ response.capacityInfo.error = "none"
             /\ response.capacityInfo.total_blocks > 0

\* embed_text answered with a capacityInfo that counts blocks of both kinds
C28_Witness ==
    /\ pc = "embedded"
    /\ req.op = "embed_text"
    /\ response.capacityInfo.low_complexity_blocks > 0
    /\ response.capacityInfo.high_complexity_blocks > 0

\* C29 (SteganographyService LSB round trip): for every image and every byte
\* string data that _lsb_embed accepts (8 * len(data) + 16 is at most the
\* number of channel values), _lsb_extract of the image _lsb_embed returned
\* gives exactly data, whatever bits data holds.
C29_LsbRoundTrip ==
    pc = "lsb_extracted" => extraction.data = Some(req.data)

\* the recorded times of ip are the last of the times of its requests given
\* to call_next
IsSuffix(history, times) ==
    /\ Len(history) <= Len(times)
    /\ history = SubSeq(times, Len(times) - Len(history) + 1, Len(times))

=============================================================================
